---- MODULE Spec2Model ----
(***************************************************************************)
(* Model of the behave/Playwright end-to-end test framework:               *)
(*   features/support/browser_manager.py  BrowserManager                   *)
(*   features/support/config.py           Config                           *)
(*   features/environment.py              before_all .. after_all hooks    *)
(*   features/steps/*.py                  step definitions                 *)
(*   features/support/page_objects/*.py   page objects                     *)
(*                                                                         *)
(* Three specifications share the manager operators:                       *)
(*   SpecMgr   one BrowserManager driven by an arbitrary sequence of       *)
(*             get_browser / close_all calls;                              *)
(*   SpecConc  several threads inside get_browser on one BrowserManager;   *)
(*   Spec      one sequential run: the hooks of environment.py called by   *)
(*             the scenario runner, with the login steps as scenario body. *)
(*                                                                         *)
(* Strings are sequences of characters so that Python's `in` (substring)   *)
(* and f-string formatting are computed, not assumed.                      *)
(***************************************************************************)
EXTENDS Integers, Sequences, FiniteSets, TLC

\* ---------------------------------------------------------------- bounds
MaxOps == 6          \* SpecMgr: calls made on the manager
NumThreads == 2      \* SpecConc: concurrent callers
MaxCalls == 2        \* SpecConc: get_browser calls per caller
MaxScenarios == 2    \* Spec: scenarios in the run
MaxSteps == 3        \* Spec: steps dispatched per scenario
MaxTextLen == 2      \* Spec: length of error texts
TickMs == 1000       \* SpecLoad: granularity of elapsed time, in ms
MaxPathSegments == 2 \* SpecNav: path segments of the current URL

\* ------------------------------------------------------------- constants
None == 0                 \* Python None for handles (handles are 1, 2, ...)
HardCodedTimeout == 30000 \* environment.py:17
DefaultTimeoutEnv == 30000 \* config.py:13, os.getenv("TIMEOUT", "30000")
Unset == -1               \* an environment variable that is not set

VARIABLES
  mgr,            \* BrowserManager fields: [playwright, browser]
  launched,       \* number of browser processes launched so far (handles 1..launched)
  started,        \* number of Playwright drivers started so far
  releases,       \* sequence of release attempts <<kind, handle>>
  returned,       \* sequence of handles returned by get_browser
  closeAllCalls,  \* number of close_all invocations
  raised,         \* some close_all call raised
  history,        \* SpecMgr: the calls made, in order
  tpc, tlocal, tcalls,  \* SpecConc: per-thread position, local handle, calls made
  pc,             \* Spec: run phase: "start", "running", "finished"
  env,            \* Spec: process environment: [TIMEOUT]
  config,         \* Spec: context.config: [timeout]
  numScenarios,   \* Spec: scenarios the feature files hold
  idx,            \* Spec: scenarios started so far (the current one is idx)
  sstate,         \* Spec: "NOT_STARTED", "RUNNING", "TEARDOWN", "DONE"
  status,         \* Spec: scenario.status: "untested", "passed", "failed"
  context,        \* Spec: scenario attributes of context: [page, login_page]
  pages,          \* Spec: pages created, in order: [open, timeout, browser]
  stepsRun,       \* Spec: step phrases dispatched in the current scenario
  calls,          \* Spec: page calls made by the steps of the current scenario
  teardown,       \* Spec: page calls made by after_scenario of the current scenario
  last,           \* Spec: outcome of the last dispatched step
  current_url,    \* SpecNav: page.url, a string as a sequence of characters
  vlast,          \* SpecNav: the last step's outcome if it was `I should be on the ".." page`
  li,             \* SpecLoad: index in load_data of the next / current call
  lphase,         \* SpecLoad: "ready", "waiting", "done", "failed"
  clock,          \* SpecLoad: ms elapsed in the current call
  lcalls,         \* SpecLoad: page calls issued by load_data, in order
  lerror,         \* SpecLoad: exception that left load_data
  seen,           \* SpecLoad: a wait observed the spinner visible
  spinner,        \* SpecLoad: the spinner element: "absent", "visible", "hidden"
  app,            \* SpecLoad: the page's data load: "idle", "pending", "loading", "loaded"
  buttonPresent   \* SpecLoad: the Load Data button can be clicked

mgrVars == <<mgr, launched, started, releases, returned, closeAllCalls, raised>>
concVars == <<tpc, tlocal, tcalls>>
runVars == <<pc, env, config, numScenarios, idx, sstate, status, context, pages,
             stepsRun, calls, teardown, last>>
navVars == <<current_url, vlast>>
loadVars == <<li, lphase, clock, lcalls, lerror, seen, spinner, app, buttonPresent>>
vars == <<mgr, launched, started, releases, returned, closeAllCalls, raised,
          history, tpc, tlocal, tcalls,
          pc, env, config, numScenarios, idx, sstate, status, context, pages,
          stepsRun, calls, teardown, last,
          current_url, vlast,
          li, lphase, clock, lcalls, lerror, seen, spinner, app, buttonPresent>>

\* Python str values used by the navigation steps, as sequences of characters
ABOUT_BLANK == <<"a", "b", "o", "u", "t", ":", "b", "l", "a", "n", "k">>
NoVerify == [step |-> "none", outcome |-> "none", expected_page |-> <<>>,
             expected_pattern |-> <<>>, url |-> <<>>, message |-> <<>>]

\* ------------------------------------------------------- BrowserManager
\* BrowserManager.__init__: playwright = None, browser = None
NewManager == [playwright |-> None, browser |-> None]

\* Mutant of get_browser: the `if not self.browser` cache test is missing.
get_browser_nocache(m, nl, ns) ==
  [mgr |-> [playwright |-> ns + 1, browser |-> nl + 1],
   launched |-> nl + 1, started |-> ns + 1, ret |-> nl + 1]

\* BrowserManager.get_browser, run without interruption.
\* m: the manager, nl: browsers launched so far, ns: drivers started so far.
get_browser(m, nl, ns) ==
  IF m.browser = None
    THEN [mgr |-> [playwright |-> ns + 1, browser |-> nl + 1],
          launched |-> nl + 1, started |-> ns + 1, ret |-> nl + 1]
    ELSE [mgr |-> m, launched |-> nl, started |-> ns, ret |-> m.browser]

Released(rel, ev) == \E i \in DOMAIN rel : rel[i] = ev

\* Mutant of close_all: the `if self.browser` / `if self.playwright` guards are missing,
\* so None.close() raises AttributeError.
close_all_unguarded(m, rel, closeRaises, stopRaises) ==
  IF m.browser = None
    THEN [releases |-> rel, raised |-> TRUE]
    ELSE [releases |-> rel \o << <<"browser.close", m.browser>>,
                                 <<"playwright.stop", m.playwright>> >>,
          raised |-> FALSE]

\* BrowserManager.close_all.  closeRaises / stopRaises: whether the library call
\* browser.close() / playwright.stop() raises (an exception skips what follows).
close_all(m, rel, closeRaises, stopRaises) ==
  LET r1 == IF m.browser # None
              THEN Append(rel, <<"browser.close", m.browser>>) ELSE rel
      e1 == m.browser # None /\ closeRaises
      r2 == IF ~e1 /\ m.playwright # None
              THEN Append(r1, <<"playwright.stop", m.playwright>>) ELSE r1
      e2 == ~e1 /\ m.playwright # None /\ stopRaises
  IN [releases |-> r2, raised |-> e1 \/ e2]

\* Outcomes the library can produce: releasing a live resource succeeds; what a
\* release of an already released resource does is not fixed by this code.
CloseOutcomes(m, rel) ==
  IF m.browser # None /\ Released(rel, <<"browser.close", m.browser>>)
    THEN BOOLEAN ELSE {FALSE}
StopOutcomes(m, rel) ==
  IF m.playwright # None /\ Released(rel, <<"playwright.stop", m.playwright>>)
    THEN BOOLEAN ELSE {FALSE}

\* ------------------------------------------------- SpecMgr: direct calls
InitConcIdle ==
  /\ tpc = [t \in 1..NumThreads |-> "idle"]
  /\ tlocal = [t \in 1..NumThreads |-> None]
  /\ tcalls = [t \in 1..NumThreads |-> 0]

InitMgrVars ==
  /\ mgr = NewManager
  /\ launched = 0 /\ started = 0
  /\ releases = <<>> /\ returned = <<>>
  /\ closeAllCalls = 0 /\ raised = FALSE

NoStep == [step |-> "none", outcome |-> "none", error |-> "none",
           expected |-> <<>>, actual |-> <<>>, message |-> <<>>]

\* the run variables while no run is modelled
InitRunIdle ==
  /\ pc = "start" /\ env = [TIMEOUT |-> Unset] /\ config = [timeout |-> None]
  /\ numScenarios = 0 /\ idx = 0 /\ sstate = "NOT_STARTED" /\ status = "untested"
  /\ context = [page |-> None, login_page |-> None]
  /\ pages = <<>> /\ stepsRun = <<>> /\ calls = <<>> /\ teardown = <<>>
  /\ last = NoStep

\* the page variables while no page is modelled
InitNavIdle == current_url = ABOUT_BLANK /\ vlast = NoVerify
InitLoadIdle ==
  /\ li = 1 /\ lphase = "ready" /\ clock = 0 /\ lcalls = <<>> /\ lerror = "none"
  /\ seen = FALSE /\ spinner = "absent" /\ app = "idle" /\ buttonPresent = TRUE

InitMgr ==
  InitMgrVars /\ history = <<>> /\ InitConcIdle /\ InitRunIdle /\ InitNavIdle /\ InitLoadIdle

CallGetBrowser ==
  /\ Len(history) < MaxOps
  /\ LET r == get_browser(mgr, launched, started) IN
       /\ mgr' = r.mgr /\ launched' = r.launched /\ started' = r.started
       /\ returned' = Append(returned, r.ret)
  /\ history' = Append(history, "get_browser")
  /\ UNCHANGED <<releases, closeAllCalls, raised, tpc, tlocal, tcalls, runVars, navVars, loadVars>>

CallCloseAll ==
  /\ Len(history) < MaxOps
  /\ \E cr \in CloseOutcomes(mgr, releases), sr \in StopOutcomes(mgr, releases) :
       LET r == close_all(mgr, releases, cr, sr) IN
         /\ releases' = r.releases
         /\ raised' = (raised \/ r.raised)
  /\ closeAllCalls' = closeAllCalls + 1
  /\ history' = Append(history, "close_all")
  /\ UNCHANGED <<mgr, launched, started, returned, tpc, tlocal, tcalls, runVars, navVars, loadVars>>

NextMgr == CallGetBrowser \/ CallCloseAll
SpecMgr == InitMgr /\ [][NextMgr]_vars

\* --------------------------------- SpecConc: threads inside get_browser
\* get_browser has no lock; each thread executes its statements one at a time
\* and may be preempted between them (launch() blocks on I/O).
Threads == 1..NumThreads

InitConc ==
  InitMgrVars /\ history = <<>> /\ InitConcIdle /\ InitRunIdle /\ InitNavIdle /\ InitLoadIdle

\* a caller enters get_browser
GB_Enter(t) ==
  /\ tpc[t] = "idle" /\ tcalls[t] < MaxCalls
  /\ tpc' = [tpc EXCEPT ![t] = "check"]
  /\ tcalls' = [tcalls EXCEPT ![t] = @ + 1]
  /\ UNCHANGED <<mgrVars, history, tlocal, runVars, navVars, loadVars>>

\* line 13: if not self.browser
GB_Check(t) ==
  /\ tpc[t] = "check"
  /\ tpc' = [tpc EXCEPT ![t] = IF mgr.browser = None THEN "start" ELSE "return"]
  /\ UNCHANGED <<mgrVars, history, tlocal, tcalls, runVars, navVars, loadVars>>

\* line 14: self.playwright = sync_playwright().start()
GB_Start(t) ==
  /\ tpc[t] = "start"
  /\ started' = started + 1
  /\ mgr' = [mgr EXCEPT !.playwright = started + 1]
  /\ tpc' = [tpc EXCEPT ![t] = "launch"]
  /\ UNCHANGED <<launched, releases, returned, closeAllCalls, raised, history, tlocal, tcalls, runVars, navVars, loadVars>>

\* lines 16-20: browser_type.launch(...) creates a browser process
GB_Launch(t) ==
  /\ tpc[t] = "launch"
  /\ launched' = launched + 1
  /\ tlocal' = [tlocal EXCEPT ![t] = launched + 1]
  /\ tpc' = [tpc EXCEPT ![t] = "store"]
  /\ UNCHANGED <<mgr, started, releases, returned, closeAllCalls, raised, history, tcalls, runVars, navVars, loadVars>>

\* line 17: self.browser = <the launched browser>
GB_Store(t) ==
  /\ tpc[t] = "store"
  /\ mgr' = [mgr EXCEPT !.browser = tlocal[t]]
  /\ tpc' = [tpc EXCEPT ![t] = "return"]
  /\ UNCHANGED <<launched, started, releases, returned, closeAllCalls, raised, history, tlocal, tcalls, runVars, navVars, loadVars>>

\* line 22: return self.browser
GB_Return(t) ==
  /\ tpc[t] = "return"
  /\ returned' = Append(returned, mgr.browser)
  /\ tpc' = [tpc EXCEPT ![t] = "idle"]
  /\ tlocal' = [tlocal EXCEPT ![t] = None]
  /\ UNCHANGED <<mgr, launched, started, releases, closeAllCalls, raised, history, tcalls, runVars, navVars, loadVars>>

NextConc ==
  \E t \in Threads :
    \/ GB_Enter(t) \/ GB_Check(t) \/ GB_Start(t)
    \/ GB_Launch(t) \/ GB_Store(t) \/ GB_Return(t)
SpecConc == InitConc /\ [][NextConc]_vars

\* ------------------------------------------------------------- strings
Chars == {"a", "b"}
Texts == UNION {[1..n -> Chars] : n \in 0..MaxTextLen}
NoneText == <<"None">>               \* text_content() returned None
TextContents == Texts \cup {NoneText}

\* Python `s in t` on strings
IsSubstring(s, t) ==
  \E i \in 0..(Len(t) - Len(s)) : SubSeq(t, i + 1, i + Len(s)) = s

\* ------------------------------------------------------------- Config
TimeoutEnvValues == {Unset, 5000, 30000}
\* Config.timeout = int(os.getenv("TIMEOUT", "30000"))
Config(e) ==
  [timeout |-> IF e.TIMEOUT = Unset THEN DefaultTimeoutEnv ELSE e.TIMEOUT]

\* -------------------------------------------------------- page objects
USERNAME_INPUT == "#username"
PASSWORD_INPUT == "#password"
LOGIN_BUTTON == "#login-button"
ERROR_MESSAGE == ".error-message"

\* BasePage.get_text: self.page.text_content(selector) or ""
get_text(t) == IF t = NoneText THEN <<>> ELSE t

\* LoginPage.login: fill, fill, click, appended to the call log cl
LoginPage_login(cl, username, password) ==
  cl \o << <<"fill", USERNAME_INPUT, username>>,
           <<"fill", PASSWORD_INPUT, password>>,
           <<"click", LOGIN_BUTTON>> >>

\* --------------------------------------------------------------- steps
PageNames == {"login", "Login", "profile"}
Credentials == {<<"alice", "secret">>, <<"bob", "hunter2">>}

Lower(n) == IF n = "Login" THEN "login" ELSE n

Passed(name) == [step |-> name, outcome |-> "passed", error |-> "none",
                 expected |-> <<>>, actual |-> <<>>, message |-> <<>>]
\* context.login_page read while the attribute was never set
AttributeError(name) == [step |-> name, outcome |-> "failed", error |-> "AttributeError",
                         expected |-> <<>>, actual |-> <<>>, message |-> <<>>]

\* url_map.get(page_name.lower(), base_url); a URL is base_url followed by a path
url_map_get(page_name) ==
  LET k == Lower(page_name) IN
    IF k = "login" THEN <<"BASE_URL", "/login">>
    ELSE IF k = "dashboard" THEN <<"BASE_URL", "/dashboard">>
    ELSE <<"BASE_URL">>

\* @given('I am on the "{page_name}" page')
step_navigate_to_page(ctx, cl, page_name) ==
  [context |-> ctx,
   calls |-> cl \o << <<"goto", url_map_get(page_name)>>,
                      <<"wait_for_load_state", "networkidle">> >>,
   last |-> Passed("I am on the \"{page_name}\" page")]

\* @given('I am on the login page')
step_navigate_to_login(ctx, cl) ==
  [context |-> [ctx EXCEPT !.login_page = ctx.page],
   calls |-> Append(cl, <<"goto", <<"BASE_URL", "/login">> >>),
   last |-> Passed("I am on the login page")]

\* @when('I enter username "{username}" and password "{password}"')
step_enter_credentials(ctx, cl, username, password) ==
  IF ctx.login_page = None
    THEN [context |-> ctx, calls |-> cl,
          last |-> AttributeError("I enter username \"{username}\" and password \"{password}\"")]
    ELSE [context |-> ctx, calls |-> LoginPage_login(cl, username, password),
          last |-> Passed("I enter username \"{username}\" and password \"{password}\"")]

\* @when('I click the login button')
step_click_login(ctx, cl) ==
  IF ctx.login_page = None
    THEN [context |-> ctx, calls |-> cl,
          last |-> AttributeError("I click the login button")]
    ELSE [context |-> ctx, calls |-> Append(cl, <<"click", LOGIN_BUTTON>>),
          last |-> Passed("I click the login button")]

\* f"Expected error '{error_message}' not found in '{actual_error}'"
ErrorNotFoundMessage(error_message, actual_error) ==
  <<"Expected error '">> \o error_message \o <<"' not found in '">>
    \o actual_error \o <<"'">>

\* Mutant of step_verify_error_message: `==` where the code has `in`.
step_verify_error_message_exact(ctx, cl, error_message, text) ==
  IF ctx.login_page = None
    THEN [context |-> ctx, calls |-> cl,
          last |-> AttributeError("I should see an error message \"{error_message}\"")]
    ELSE
      LET actual_error == get_text(text)
          ok == error_message = actual_error
      IN [context |-> ctx,
          calls |-> Append(cl, <<"text_content", ERROR_MESSAGE>>),
          last |-> [step |-> "I should see an error message \"{error_message}\"",
                    outcome |-> IF ok THEN "passed" ELSE "failed",
                    error |-> IF ok THEN "none" ELSE "AssertionError",
                    expected |-> error_message,
                    actual |-> text,
                    message |-> IF ok THEN <<>>
                                ELSE ErrorNotFoundMessage(error_message, actual_error)]]

\* @then('I should see an error message "{error_message}"')
\* text: what page.text_content(".error-message") returns
step_verify_error_message(ctx, cl, error_message, text) ==
  IF ctx.login_page = None
    THEN [context |-> ctx, calls |-> cl,
          last |-> AttributeError("I should see an error message \"{error_message}\"")]
    ELSE
      LET actual_error == get_text(text)
          ok == IsSubstring(error_message, actual_error)
      IN [context |-> ctx,
          calls |-> Append(cl, <<"text_content", ERROR_MESSAGE>>),
          last |-> [step |-> "I should see an error message \"{error_message}\"",
                    outcome |-> IF ok THEN "passed" ELSE "failed",
                    error |-> IF ok THEN "none" ELSE "AssertionError",
                    expected |-> error_message,
                    actual |-> text,
                    message |-> IF ok THEN <<>>
                                ELSE ErrorNotFoundMessage(error_message, actual_error)]]

\* ------------------------------------------------------------- hooks
\* before_scenario lines 14-17: browser.new_page(); page.set_default_timeout(30000)
new_page(b) == [open |-> TRUE, timeout |-> HardCodedTimeout, browser |-> b]

\* Mutant of after_scenario: the page is closed before the screenshot is taken.
after_scenario_close_first(st, ctx, pgs, shotRaises) ==
  LET closes == ctx.page # None
      shot == st = "failed" /\ ctx.page # None
  IN [teardown |-> (IF closes THEN <<"close">> ELSE <<>>)
                     \o (IF shot THEN <<"screenshot">> ELSE <<>>),
      pages |-> IF closes THEN [pgs EXCEPT ![ctx.page].open = FALSE] ELSE pgs]

\* after_scenario.  st: scenario.status, ctx: context, pgs: the pages,
\* shotRaises: page.screenshot() raises (the exception leaves the hook).
after_scenario(st, ctx, pgs, shotRaises) ==
  LET shot == st = "failed" /\ ctx.page # None
      aborted == st = "failed" /\ (ctx.page = None \/ shotRaises)
      closes == ~aborted /\ ctx.page # None
  IN [teardown |-> (IF shot THEN <<"screenshot">> ELSE <<>>)
                     \o (IF closes THEN <<"close">> ELSE <<>>),
      pages |-> IF closes THEN [pgs EXCEPT ![ctx.page].open = FALSE] ELSE pgs]

\* ----------------------------------------------- Spec: one sequential run
\* The scenario runner calls before_all, then for each scenario before_scenario,
\* the steps in order (skipping the rest after a failing step) and after_scenario,
\* then after_all.  An exception leaving a hook ends that hook only.
Init ==
  /\ InitMgrVars /\ history = <<>> /\ InitConcIdle /\ InitNavIdle /\ InitLoadIdle
  /\ pc = "start"
  /\ env \in [TIMEOUT : TimeoutEnvValues]
  /\ config = [timeout |-> None]
  /\ numScenarios \in 0..MaxScenarios
  /\ idx = 0 /\ sstate = "NOT_STARTED" /\ status = "untested"
  /\ context = [page |-> None, login_page |-> None]
  /\ pages = <<>> /\ stepsRun = <<>> /\ calls = <<>> /\ teardown = <<>>
  /\ last = NoStep

\* Mutant of HasBrowserManager: the attribute name tested is misspelt.
HasBrowserManager_misspelt == FALSE

\* hasattr(context, 'browser_manager'): set by before_all
HasBrowserManager == pc # "start"

before_all ==
  /\ pc = "start"
  /\ config' = Config(env)
  /\ mgr' = NewManager
  /\ pc' = "running"
  /\ UNCHANGED <<launched, started, releases, returned, closeAllCalls, raised,
                 history, concVars, navVars, loadVars, env, numScenarios, idx, sstate, status,
                 context, pages, stepsRun, calls, teardown, last>>

before_scenario ==
  /\ pc = "running" /\ sstate \in {"NOT_STARTED", "DONE"} /\ idx < numScenarios
  /\ LET r == get_browser(mgr, launched, started) IN
       /\ mgr' = r.mgr /\ launched' = r.launched /\ started' = r.started
       /\ returned' = Append(returned, r.ret)
       /\ pages' = Append(pages, new_page(r.ret))
  /\ context' = [page |-> Len(pages) + 1, login_page |-> None]
  /\ idx' = idx + 1 /\ sstate' = "RUNNING" /\ status' = "untested"
  /\ stepsRun' = <<>> /\ calls' = <<>> /\ teardown' = <<>> /\ last' = NoStep
  /\ UNCHANGED <<releases, closeAllCalls, raised, history, concVars, navVars, loadVars,
                 pc, env, config, numScenarios>>

StepGuard == pc = "running" /\ sstate = "RUNNING" /\ Len(stepsRun) < MaxSteps

\* the runner dispatches one step; r is what the step function did
Dispatch(r) ==
  /\ stepsRun' = Append(stepsRun, r.last.step)
  /\ context' = r.context /\ calls' = r.calls /\ last' = r.last
  /\ IF r.last.outcome = "failed"
       THEN status' = "failed" /\ sstate' = "TEARDOWN"
       ELSE UNCHANGED <<status, sstate>>
  /\ UNCHANGED <<mgrVars, history, concVars, navVars, loadVars, pc, env, config, numScenarios, idx,
                 pages, teardown>>

Step_NavigateToPage ==
  StepGuard /\ \E n \in PageNames : Dispatch(step_navigate_to_page(context, calls, n))
Step_NavigateToLogin ==
  StepGuard /\ Dispatch(step_navigate_to_login(context, calls))
Step_EnterCredentials ==
  StepGuard /\ \E c \in Credentials :
                 Dispatch(step_enter_credentials(context, calls, c[1], c[2]))
Step_ClickLogin ==
  StepGuard /\ Dispatch(step_click_login(context, calls))
Step_VerifyErrorMessage ==
  StepGuard /\ \E e \in Texts, t \in TextContents :
                 Dispatch(step_verify_error_message(context, calls, e, t))

\* the last step of the scenario passed
EndSteps ==
  /\ pc = "running" /\ sstate = "RUNNING"
  /\ status' = "passed" /\ sstate' = "TEARDOWN"
  /\ UNCHANGED <<mgrVars, history, concVars, navVars, loadVars, pc, env, config, numScenarios, idx,
                 context, pages, stepsRun, calls, teardown, last>>

AfterScenario ==
  /\ pc = "running" /\ sstate = "TEARDOWN"
  /\ \E shotRaises \in BOOLEAN :
       LET r == after_scenario(status, context, pages, shotRaises) IN
         /\ pages' = r.pages /\ teardown' = r.teardown
  /\ sstate' = "DONE"
  /\ UNCHANGED <<mgrVars, history, concVars, navVars, loadVars, pc, env, config, numScenarios, idx,
                 status, context, stepsRun, calls, last>>

after_all ==
  /\ pc = "running" /\ sstate \in {"NOT_STARTED", "DONE"} /\ idx = numScenarios
  /\ IF HasBrowserManager
       THEN /\ \E cr \in CloseOutcomes(mgr, releases), sr \in StopOutcomes(mgr, releases) :
                 LET r == close_all(mgr, releases, cr, sr) IN
                   releases' = r.releases /\ raised' = (raised \/ r.raised)
            /\ closeAllCalls' = closeAllCalls + 1
       ELSE UNCHANGED <<releases, closeAllCalls, raised>>
  /\ pc' = "finished"
  /\ UNCHANGED <<mgr, launched, started, returned, history, concVars, navVars, loadVars, env, config,
                 numScenarios, idx, sstate, status, context, pages, stepsRun,
                 calls, teardown, last>>

Next ==
  \/ before_all \/ before_scenario
  \/ Step_NavigateToPage \/ Step_NavigateToLogin \/ Step_EnterCredentials
  \/ Step_ClickLogin \/ Step_VerifyErrorMessage
  \/ EndSteps \/ AfterScenario \/ after_all
Spec == Init /\ [][Next]_vars

\* ------------------------------------------------------------- claims
AllSameHandle == \A i, j \in DOMAIN returned : returned[i] = returned[j]

\* C2: concurrent get_browser callers on one manager launch exactly one browser
\* process and all receive that one instance, in every interleaving.
C2_SingleFlight ==
  /\ launched <= 1
  /\ AllSameHandle
  /\ (returned # <<>> => launched = 1)

\* C3: close_all called twice in succession on a manager that acquired a browser
\* raises no error and the second call issues no further release attempt.
TwiceInSuccession ==
  /\ Len(history) >= 3
  /\ history[Len(history)] = "close_all" /\ history[Len(history) - 1] = "close_all"
  /\ closeAllCalls = 2 /\ launched = 1
C3_CloseAllIdempotent ==
  TwiceInSuccession =>
    /\ ~raised
    /\ Len(releases) = 2

\* C10: close_all on a manager on which get_browser was never called raises no
\* error and performs no browser close and no driver stop.
NeverAcquired == \A i \in DOMAIN history : history[i] # "get_browser"
C10_CloseAllNoop ==
  NeverAcquired => (releases = <<>> /\ ~raised)
C10_Witness ==
  /\ NeverAcquired /\ closeAllCalls >= 1 /\ releases = <<>> /\ ~raised

\* C1: within one run, before close_all is called, the browser process is
\* launched at most once and every get_browser call returns the identical handle.
C1_OneBrowserPerRun ==
  closeAllCalls = 0 =>
    /\ launched <= 1
    /\ AllSameHandle
    /\ \A i \in DOMAIN returned : returned[i] = mgr.browser /\ launched = 1
C1_Witness ==
  /\ closeAllCalls = 0 /\ idx >= 2 /\ Len(returned) >= 2 /\ launched = 1

\* scenario i has finished its teardown
TeardownEnded(i) == i < idx \/ (i = idx /\ sstate = "DONE")

\* C4: the page a scenario opened in setup is closed by the end of that
\* scenario's teardown, whatever the status and whatever the screenshot did.
C4_PageClosedAfterTeardown ==
  \A i \in DOMAIN pages : TeardownEnded(i) => ~pages[i].open

\* C5: in teardown a screenshot is captured iff the scenario failed, and it is
\* captured before the page is closed (before any other cleanup).
C5_ScreenshotIffFailedThenClose ==
  sstate = "DONE" =>
    /\ (\E i \in DOMAIN teardown : teardown[i] = "screenshot") <=> status = "failed"
    /\ \A i, j \in DOMAIN teardown :
         (teardown[i] = "screenshot" /\ teardown[j] # "screenshot") => i < j
    /\ Cardinality({i \in DOMAIN teardown : teardown[i] = "screenshot"}) <= 1
C5_Witness ==
  /\ sstate = "DONE" /\ status = "failed"
  /\ teardown = <<"screenshot", "close">>

\* C6: after `I am on the "login" page`, the steps `I enter username .. and
\* password ..` and `I click the login button` make exactly three page
\* interactions: fill(username), fill(password), click(login button).
C6_Scenario ==
  /\ Len(stepsRun) >= 2
  /\ stepsRun[1] = "I am on the \"{page_name}\" page"
  /\ calls[1] = <<"goto", <<"BASE_URL", "/login">> >>
  /\ stepsRun[2] = "I enter username \"{username}\" and password \"{password}\""
  /\ \/ status = "failed"
     \/ Len(stepsRun) = 3 /\ stepsRun[3] = "I click the login button"
C6_ThreeInteractions ==
  C6_Scenario =>
    \E c \in Credentials :
      SubSeq(calls, 3, Len(calls)) =
        << <<"fill", "#username", c[1]>>, <<"fill", "#password", c[2]>>,
           <<"click", "#login-button">> >>

\* C7: every page opened in scenario setup has its default timeout set to the
\* configured timeout (Config.timeout, from TIMEOUT, default 30000).
C7_ConfiguredTimeout ==
  \A i \in DOMAIN pages : pages[i].timeout = config.timeout

\* C8: close_all is invoked exactly once per run, only after every scenario has
\* finished its teardown; a failed scenario prevents neither the following
\* scenarios nor the final close_all.
C8_CloseAllOnceAtEnd ==
  /\ closeAllCalls <= 1
  /\ closeAllCalls = 1 =>
       (idx = numScenarios /\ \A i \in 1..numScenarios : TeardownEnded(i))
  /\ pc = "finished" => closeAllCalls = 1
  /\ (pc = "running" /\ sstate = "DONE" /\ status = "failed") =>
       IF idx < numScenarios THEN ENABLED before_scenario ELSE ENABLED after_all
C8_Witness ==
  /\ pc = "finished" /\ closeAllCalls = 1 /\ numScenarios >= 2
  /\ idx = numScenarios /\ pages[1].open

\* s occurs in t as a contiguous block
Occurs(s, t) ==
  \E a, b \in 0..Len(t) : a <= b /\ b - a = Len(s) /\ \A k \in 1..Len(s) : t[a + k] = s[k]
TextOrEmpty(t) == IF t = NoneText THEN <<>> ELSE t

\* C9: `I should see an error message "E"` passes exactly when E is a substring
\* of the error-message locator's text (no text counts as the empty string),
\* and a failure's message contains both E and the actual text.
C9_VerifyErrorMessage ==
  (last.step = "I should see an error message \"{error_message}\""
     /\ last.error # "AttributeError") =>
    /\ last.outcome = "passed" <=> Occurs(last.expected, TextOrEmpty(last.actual))
    /\ last.outcome = "failed" =>
         /\ Occurs(last.expected, last.message)
         /\ Occurs(TextOrEmpty(last.actual), last.message)
         /\ Len(last.message) > Len(last.expected) + Len(TextOrEmpty(last.actual))
C9_Witness ==
  /\ last.step = "I should see an error message \"{error_message}\""
  /\ last.outcome = "failed" /\ last.error = "AssertionError"
  /\ last.expected # <<>> /\ last.actual # <<>> /\ last.actual # NoneText
  /\ status = "failed"

\* the get_browser call at position j of history is the GetIndex(j)-th such call
GetIndex(j) == Cardinality({k \in 1..j : history[k] = "get_browser"})
AfterCloseAll(j) ==
  /\ history[j] = "get_browser"
  /\ \E i \in 1..(j - 1) : history[i] = "close_all"
AcquiredThenClosed(j) ==
  /\ history[j] = "get_browser"
  /\ \E k, i \in 1..(j - 1) :
       k < i /\ history[k] = "get_browser" /\ history[i] = "close_all"
ReturnsClosedCachedHandle(j) ==
  /\ Released(releases, <<"browser.close", returned[GetIndex(j)]>>)
  /\ \E k \in 1..(j - 1) :
       history[k] = "get_browser" /\ returned[GetIndex(k)] = returned[GetIndex(j)]

\* C12 as stated: any get_browser call made after close_all returns the same,
\* already closed, browser handle and launches no new browser process.
C12_AnyCallAfterCloseAll ==
  \A j \in DOMAIN history : AfterCloseAll(j) => ReturnsClosedCachedHandle(j)

\* C12 amended: on a manager that acquired a browser before close_all, any
\* get_browser call made after that close_all returns the same, already closed,
\* handle and launches no new browser process.
C12_CallAfterCloseOfAcquired ==
  \A j \in DOMAIN history :
    AcquiredThenClosed(j) =>
      /\ ReturnsClosedCachedHandle(j)
      /\ returned[GetIndex(j)] = returned[1]
      /\ launched = 1 /\ started = 1
C12_Witness ==
  /\ Len(history) >= 3 /\ AcquiredThenClosed(Len(history))
  /\ launched = 1 /\ returned[Len(returned)] = 1
  /\ Released(releases, <<"browser.close", 1>>)

\* ------------------------------------- SpecLoad: DashboardPage.load_data
LOAD_DATA_BUTTON == "button:has-text('Load Data')"
LOADING_SPINNER == ".loading-spinner"
SpinnerVisibleTimeout == 5000    \* dashboard_page.py:30
SpinnerHiddenTimeout == 30000    \* dashboard_page.py:31

\* BasePage.wait_for_selector(selector, timeout): page.wait_for_selector with the
\* library's default state, "visible"
wait_for_selector(selector, timeout) ==
  [op |-> "wait_for_selector", selector |-> selector, state |-> "visible",
   timeout |-> timeout]

\* Mutant of load_data: the two waits are issued in the other order.
load_data_hidden_first ==
  << [op |-> "click", selector |-> LOAD_DATA_BUTTON, state |-> "enabled",
      timeout |-> HardCodedTimeout],
     [op |-> "wait_for_selector", selector |-> LOADING_SPINNER, state |-> "hidden",
      timeout |-> SpinnerHiddenTimeout],
     wait_for_selector(LOADING_SPINNER, SpinnerVisibleTimeout) >>

\* DashboardPage.load_data: the page calls it makes, in program order.  click
\* waits for the button under the page's default timeout (environment.py:17).
load_data ==
  << [op |-> "click", selector |-> LOAD_DATA_BUTTON, state |-> "enabled",
      timeout |-> HardCodedTimeout],
     wait_for_selector(LOADING_SPINNER, SpinnerVisibleTimeout),
     [op |-> "wait_for_selector", selector |-> LOADING_SPINNER, state |-> "hidden",
      timeout |-> SpinnerHiddenTimeout] >>

\* what the library call c waits for
Satisfied(c) ==
  CASE c.op = "click" -> buttonPresent
    [] c.state = "visible" -> spinner = "visible"
    [] c.state = "hidden" -> spinner # "visible"

InitLoad ==
  /\ InitMgrVars /\ history = <<>> /\ InitConcIdle /\ InitRunIdle /\ InitNavIdle
  /\ li = 1 /\ lphase = "ready" /\ clock = 0 /\ lcalls = <<>> /\ lerror = "none"
  /\ seen = FALSE /\ spinner = "absent" /\ app = "idle"
  /\ buttonPresent \in BOOLEAN

\* load_data issues its next call
LD_Call ==
  /\ lphase = "ready" /\ li <= Len(load_data)
  /\ lcalls' = Append(lcalls, load_data[li])
  /\ clock' = 0 /\ lphase' = "waiting"
  /\ UNCHANGED <<mgrVars, history, concVars, runVars, navVars,
                 li, lerror, seen, spinner, app, buttonPresent>>

\* the call's condition holds: it returns (a click starts the data load)
LD_Return ==
  /\ lphase = "waiting" /\ Satisfied(load_data[li])
  /\ app' = IF load_data[li].op = "click" /\ app = "idle" THEN "pending" ELSE app
  /\ seen' = (seen \/ (load_data[li].op = "wait_for_selector"
                        /\ load_data[li].state = "visible"))
  /\ li' = li + 1
  /\ lphase' = IF li = Len(load_data) THEN "done" ELSE "ready"
  /\ UNCHANGED <<mgrVars, history, concVars, runVars, navVars,
                 clock, lcalls, lerror, spinner, buttonPresent>>

\* time passes while the call's condition does not hold
LD_Tick ==
  /\ lphase = "waiting" /\ ~Satisfied(load_data[li])
  /\ clock < load_data[li].timeout
  /\ clock' = clock + TickMs
  /\ UNCHANGED <<mgrVars, history, concVars, runVars, navVars,
                 li, lphase, lcalls, lerror, seen, spinner, app, buttonPresent>>

\* the call's timeout expires: TimeoutError leaves load_data (nothing catches it)
LD_Timeout ==
  /\ lphase = "waiting" /\ ~Satisfied(load_data[li])
  /\ clock >= load_data[li].timeout
  /\ lphase' = "failed" /\ lerror' = "TimeoutError"
  /\ UNCHANGED <<mgrVars, history, concVars, runVars, navVars,
                 li, clock, lcalls, seen, spinner, app, buttonPresent>>

\* the application renders the spinner for a pending load
AppShowSpinner ==
  /\ app = "pending"
  /\ app' = "loading" /\ spinner' = "visible"
  /\ UNCHANGED <<mgrVars, history, concVars, runVars, navVars,
                 li, lphase, clock, lcalls, lerror, seen, buttonPresent>>

\* the application completes the load, with or without having rendered the spinner
AppFinish ==
  /\ app \in {"pending", "loading"}
  /\ app' = "loaded"
  /\ spinner' = IF spinner = "visible" THEN "hidden" ELSE spinner
  /\ UNCHANGED <<mgrVars, history, concVars, runVars, navVars,
                 li, lphase, clock, lcalls, lerror, seen, buttonPresent>>

LD_Program == LD_Call \/ LD_Return \/ LD_Tick \/ LD_Timeout
NextLoad == LD_Call \/ LD_Return \/ LD_Tick \/ LD_Timeout \/ AppShowSpinner \/ AppFinish
\* The calls are blocking library calls with a timeout and time does pass: the
\* program side is weakly fair; the application may stall at any point.
SpecLoad == InitLoad /\ [][NextLoad]_vars /\ WF_vars(LD_Program)

IsPrefix(s, t) == Len(s) <= Len(t) /\ \A i \in DOMAIN s : s[i] = t[i]
Terminated == lphase \in {"done", "failed"}

C11_Safe ==
  /\ IsPrefix(lcalls,
       << [op |-> "click", selector |-> "button:has-text('Load Data')",
           state |-> "enabled", timeout |-> 30000],
          [op |-> "wait_for_selector", selector |-> ".loading-spinner",
           state |-> "visible", timeout |-> 5000],
          [op |-> "wait_for_selector", selector |-> ".loading-spinner",
           state |-> "hidden", timeout |-> 30000] >>)
  /\ lphase = "done" => (seen /\ Len(lcalls) = 3 /\ lerror = "none")
  /\ (Terminated /\ ~seen) => (lphase = "failed" /\ lerror = "TimeoutError")
  /\ lphase = "failed" => (lerror = "TimeoutError" /\ Len(lcalls) = li)
  /\ (lphase = "waiting" /\ li = 3) => seen

\* C11: load_data issues click, wait-visible (5000 ms), wait-hidden (30000 ms)
\* strictly in that order and never again; it succeeds only if the first wait
\* observed the spinner visible, otherwise it fails with a timeout, also when the
\* load has already completed; and it always terminates.
C11_LoadDataOrderAndTermination == [] C11_Safe /\ <> Terminated
C11_Witness ==
  /\ lphase = "failed" /\ lerror = "TimeoutError" /\ li = 2 /\ Len(lcalls) = 2
  /\ app = "loaded" /\ ~seen /\ clock >= 5000

\* ------------------------- SpecNav: `I should be on the "{expected_page}" page`
Str_home == <<"h", "o", "m", "e">>
Str_login == <<"l", "o", "g", "i", "n">>
Str_dashboard == <<"d", "a", "s", "h", "b", "o", "a", "r", "d">>
Str_profile == <<"p", "r", "o", "f", "i", "l", "e">>
Str_settings == <<"s", "e", "t", "t", "i", "n", "g", "s">>
BASE_URL == <<"h", "t", "t", "p", "s", ":", "/", "/", "e", "x", "a", "m", "p", "l", "e", ".", "c", "o", "m">>   \* config.py:12, the default

UpperCase == <<"A", "B", "C", "D", "E", "F", "G", "H", "I", "J", "K", "L", "M", "N", "O", "P", "Q", "R", "S", "T", "U", "V", "W", "X", "Y", "Z">>
LowerCase == <<"a", "b", "c", "d", "e", "f", "g", "h", "i", "j", "k", "l", "m", "n", "o", "p", "q", "r", "s", "t", "u", "v", "w", "x", "y", "z">>
\* str.lower() on one character
LowerChar(c) ==
  IF \E i \in DOMAIN UpperCase : UpperCase[i] = c
    THEN LowerCase[CHOOSE i \in DOMAIN UpperCase : UpperCase[i] = c]
    ELSE c
\* str.lower()
str_lower(str) == [i \in 1..Len(str) |-> LowerChar(str[i])]

\* Mutant of url_patterns_get: the entry for "home" is "/" instead of "".
url_patterns_get_home_slash(key, default) ==
  CASE key = Str_home -> <<"/">>
    [] key = Str_login -> <<"/">> \o Str_login
    [] key = Str_dashboard -> <<"/">> \o Str_dashboard
    [] key = Str_profile -> <<"/">> \o Str_profile
    [] key = Str_settings -> <<"/">> \o Str_settings
    [] OTHER -> default

\* url_patterns.get(key, default) over the url_patterns table
url_patterns_get(key, default) ==
  CASE key = Str_home -> <<>>
    [] key = Str_login -> <<"/">> \o Str_login
    [] key = Str_dashboard -> <<"/">> \o Str_dashboard
    [] key = Str_profile -> <<"/">> \o Str_profile
    [] key = Str_settings -> <<"/">> \o Str_settings
    [] OTHER -> default

\* the assertion message of step_verify_current_page
NotOnPageMessage(expected_page, expected_pattern, url) ==
  <<"Expected to be on '">> \o expected_page \o <<"' page (URL containing '">>
    \o expected_pattern \o <<"'), but current URL is '">> \o url \o <<"'">>

\* @then('I should be on the "{expected_page}" page'); url: context.page.url
step_verify_current_page(expected_page, url) ==
  LET expected_pattern ==
        url_patterns_get(str_lower(expected_page), <<"/">> \o expected_page)
      ok == IsSubstring(expected_pattern, url)
  IN [step |-> "I should be on the \"{expected_page}\" page",
      outcome |-> IF ok THEN "passed" ELSE "failed",
      expected_page |-> expected_page,
      expected_pattern |-> expected_pattern,
      url |-> url,
      message |-> IF ok THEN <<>>
                  ELSE NotOnPageMessage(expected_page, expected_pattern, url)]

\* page names a feature file passes to the step
ExpectedPages ==
  {Str_home, <<"H", "o", "m", "e">>, Str_login, <<"L", "O", "G", "I", "N">>, Str_dashboard, Str_profile,
   Str_settings, <<"a", "d", "m", "i", "n">>, <<"A", "d", "m", "i", "n">>, <<"l", "o", "g">>}
\* path segments of the URLs the browser can be at
PathSegments ==
  {<<"/">> \o Str_login, <<"/">> \o Str_dashboard, <<"/">> \o Str_settings,
   <<"/", "A", "d", "m", "i", "n">>, <<"/", "l", "o", "g">>}
RECURSIVE Paths(_)
Paths(n) ==
  IF n = 0 THEN {<<>>}
  ELSE Paths(n - 1) \cup {p \o g : p \in Paths(n - 1), g \in PathSegments}
Urls == {ABOUT_BLANK} \cup {BASE_URL \o p : p \in Paths(MaxPathSegments)}

InitNav ==
  /\ InitMgrVars /\ history = <<>> /\ InitConcIdle /\ InitRunIdle /\ InitLoadIdle
  /\ current_url = ABOUT_BLANK   \* a new page
  /\ vlast = NoVerify

\* BasePage.navigate_to in a navigation step: the page is at another URL, and the
\* last dispatched step is no longer a verification
Nav_Goto ==
  /\ \E u \in Urls : current_url' = u
  /\ vlast' = NoVerify
  /\ UNCHANGED <<mgrVars, history, concVars, runVars, loadVars>>

Step_VerifyCurrentPage ==
  /\ \E p \in ExpectedPages : vlast' = step_verify_current_page(p, current_url)
  /\ UNCHANGED <<mgrVars, history, concVars, runVars, loadVars, current_url>>

NextNav == Nav_Goto \/ Step_VerifyCurrentPage
SpecNav == InitNav /\ [][NextNav]_vars

\* the table key the claim gives a page name, <<"unlisted">> when there is none
ListedKey(p) ==
  CASE p \in {Str_home, <<"H", "o", "m", "e">>} -> Str_home
    [] p \in {Str_login, <<"L", "O", "G", "I", "N">>} -> Str_login
    [] p = Str_dashboard -> Str_dashboard
    [] p = Str_profile -> Str_profile
    [] p = Str_settings -> Str_settings
    [] OTHER -> <<"unlisted">>
ClaimedPattern(p) ==
  IF ListedKey(p) = Str_home THEN <<>>
  ELSE IF ListedKey(p) = <<"unlisted">> THEN <<"/">> \o p
  ELSE <<"/">> \o ListedKey(p)

\* C13: `I should be on the "P" page` passes exactly when the URL pattern for P
\* (the table entry for lower-cased P, or "/P" for an unlisted name) is a substring
\* of the current URL; for "home" the pattern is empty and the step always passes.
C13_VerifyCurrentPage ==
  vlast.step # "none" =>
    /\ vlast.expected_pattern = ClaimedPattern(vlast.expected_page)
    /\ vlast.outcome = "passed" <=> Occurs(ClaimedPattern(vlast.expected_page), vlast.url)
    /\ ListedKey(vlast.expected_page) = Str_home => vlast.outcome = "passed"
C13_Witness ==
  /\ vlast.expected_page = <<"H", "o", "m", "e">> /\ vlast.url = ABOUT_BLANK
  /\ vlast.outcome = "passed" /\ vlast.expected_pattern = <<>>

====
